---- MODULE Spec2Model ----
(***************************************************************************)
(* Model of TSConfig (src/src/TSConfig.ts, the class that starts at line   *)
(* 257): resolution of the config path against the project root, the raw   *)
(* read with its error classification, the cache key, the cache lookup,    *)
(* the semantic validation on a miss and the write back to the cache.      *)
(*                                                                         *)
(* parse() is an async function: every `await` is a point where another    *)
(* parse() call, or a change of the file system by another process, can    *)
(* take place.  Each call is therefore a little process with a program     *)
(* counter.  An action of the model is the code from one access to shared  *)
(* state (the instance fields, the disk, the cache) up to the next one:    *)
(* parseTSConfig and the final JSON.parse read nothing another call can    *)
(* change, so they belong to the actions of cache.get and cache.set.       *)
(*                                                                         *)
(* The collaborators are outside the repository.  The validator is a       *)
(* function of the parsed JSON and the base path.  The cache is a store    *)
(* addressed by the whole key; whether its get hands back the stored text  *)
(* or the text parsed is not fixed by TSConfig, and both are modelled      *)
(* (cacheParses, settled by the first get that finds an entry).  The call  *)
(* records also keep what the call saw and did                             *)
(* (seen, getKey, got, setKey, the n* counters, after).                    *)
(***************************************************************************)
EXTENDS Naturals, Sequences, FiniteSets, TLC

(***************************************************************************)
(* Bounds of the model.                                                    *)
(***************************************************************************)
\* number of parse() invocations in one behaviour
MaxCalls == 2

\* JavaScript's null and undefined, and the empty content field of a call
Null == [kind |-> "null"]
Undefined == [kind |-> "undefined"]
NoText == "none"

(***************************************************************************)
(* Paths.  A path is a record: abs tells whether it is absolute, segs are  *)
(* its segments.  "." and ".." are segments like any other until the path  *)
(* is resolved.                                                            *)
(***************************************************************************)
RelPath(segs) == [kind |-> "path", abs |-> FALSE, segs |-> segs]
AbsPath(segs) == [kind |-> "path", abs |-> TRUE, segs |-> segs]

\* the directory that holds package.json
AppRoot == AbsPath(<<"app">>)

RECURSIVE Normalize(_, _)
Normalize(acc, segs) ==
  IF segs = <<>> THEN acc
  ELSE LET h == Head(segs) IN
       Normalize(IF h = "." THEN acc
                 ELSE IF h = ".."
                      THEN (IF acc = <<>> THEN acc ELSE SubSeq(acc, 1, Len(acc) - 1))
                      ELSE Append(acc, h),
                 Tail(segs))

\* path.resolve(from, to): an absolute `to` wins, otherwise it is appended to
\* `from`; the result is normalized.  A non-string argument is a TypeError.
PathResolve(from, to) ==
  IF to.kind # "path" \/ from.kind # "path"
  THEN [ok |-> FALSE, error |-> [kind |-> "TypeError", code |-> "ERR_INVALID_ARG_TYPE"]]
  ELSE [ok |-> TRUE,
        value |-> AbsPath(Normalize(IF to.abs THEN <<>> ELSE from.segs, to.segs))]

\* path.dirname of an absolute, normalized path
PathDirname(p) ==
  IF p.segs = <<>> THEN p ELSE AbsPath(SubSeq(p.segs, 1, Len(p.segs) - 1))

(***************************************************************************)
(* The constructor.                                                        *)
(***************************************************************************)
defaultPathToConfig == RelPath(<<".", "tsconfig.json">>)

\* JavaScript falsiness of a configPath option: undefined and "" are falsy
Falsy(v) == v.kind # "path" \/ v = RelPath(<<>>)

\* the constructor without the default
ConstructorWithoutDefault(options) ==
  [configPath      |-> options.configPath,
   cacheFolderPath |-> options.cacheFolderPath,
   appRootPath     |-> Null,
   cache           |-> Null]

Constructor(options) ==
  [configPath      |-> IF Falsy(options.configPath)
                       THEN defaultPathToConfig
                       ELSE options.configPath,
   cacheFolderPath |-> options.cacheFolderPath,
   appRootPath     |-> Null,
   cache           |-> Null]

(***************************************************************************)
(* The file system and the contents a config file can have.                *)
(***************************************************************************)
\* "A" and "B" are two valid configs, "Bad" is JSON the validator rejects,
\* "Junk" is not JSON.
Contents == {"A", "B", "Bad", "Junk"}

\* what a path can hold: a text, nothing (ENOENT), or a file that cannot be
\* read (EACCES)
FileStates == Contents \cup {"ENOENT", "EACCES"}

TsconfigJson == AbsPath(<<"app", "tsconfig.json">>)
OtherJson == AbsPath(<<"app", "other.json">>)
ConfigFiles == {TsconfigJson, OtherJson}

\* the states the environment puts each file in: tsconfig.json is rewritten,
\* removed and protected; other.json is a valid config that stays as it is
FileStatesOf(p) == IF p = TsconfigJson THEN FileStates ELSE {"A"}

(***************************************************************************)
(* JSON and the semantic validator (typescript's                           *)
(* parseJsonConfigFileContent), a collaborator outside the repository: a   *)
(* function from the parsed JSON and the base path to options and          *)
(* diagnostics.                                                            *)
(***************************************************************************)
\* JSON.parse of a config text
JSONParseText(text) ==
  CASE text = "A"   -> [ok |-> TRUE, value |-> "jsonA"]
    [] text = "B"   -> [ok |-> TRUE, value |-> "jsonB"]
    [] text = "Bad" -> [ok |-> TRUE, value |-> "jsonBad"]
    [] OTHER        -> [ok |-> FALSE, error |-> [kind |-> "SyntaxError", code |-> "none"]]

Diagnostic(code, sourcePath) ==
  [message |-> "Unknown option", code |-> code, sourcePath |-> sourcePath]

parseJsonConfigFileContent(json, basePath) ==
  [options |-> [kind |-> "options", of |-> json, basePath |-> basePath],
   errors  |-> IF json = "jsonBad" THEN <<Diagnostic(5023, basePath)>> ELSE <<>>]

\* formatDiagnostics: one line per diagnostic, in the order given
formatDiagnostics(errors, currentDirectory) ==
  [n \in 1..Len(errors) |->
     <<errors[n].sourcePath, currentDirectory, errors[n].code, errors[n].message>>]

\* JSON.stringify of an options object, and JSON.parse of such a text
JSONStringify(options) == [kind |-> "text", of |-> options]
JSONParse(text) == text.of

\* JavaScript truthiness of what cache.get hands back
Truthy(v) == v.kind \in {"text", "options"}

(***************************************************************************)
(* The cache (InFilesCache), a collaborator outside the repository: a      *)
(* store per cache folder, addressed by the whole key.                     *)
(***************************************************************************)
CacheFolders == {"cacheA"}

\* the entry a store holds under a key, Null when it holds none
CacheLookup(entries, key) ==
  IF \E e \in entries : e.key = key
  THEN (CHOOSE e \in entries : e.key = key).value
  ELSE Null

\* cache.get: the stored text as it is, or parsed, depending on the cache
CacheGet(entries, key, parses) ==
  LET v == CacheLookup(entries, key) IN
  IF v = Null THEN Null
  ELSE IF parses THEN JSONParse(v) ELSE v

\* cache.set: the entry of the key is replaced
CacheSet(entries, key, value) ==
  {e \in entries : e.key # key} \cup {[key |-> key, value |-> value]}

(***************************************************************************)
(* The private methods of TSConfig, as functions of the instance and of    *)
(* what they read.                                                         *)
(***************************************************************************)
Ok(v) == [ok |-> TRUE, value |-> v]
Throw(e) == [ok |-> FALSE, error |-> e]

\* what the disk holds at a path; paths outside the modelled files hold nothing
FileAt(files, p) == IF p \in DOMAIN files THEN files[p] ELSE "ENOENT"

\* fs.readFileSync(path, "utf8")
readFileSync(files, p) ==
  IF FileAt(files, p) \in Contents
  THEN Ok(FileAt(files, p))
  ELSE Throw([kind |-> "SystemError", code |-> FileAt(files, p)])

InvalidJsonError(p) == [kind |-> "InvalidJsonError", code |-> "none", path |-> p]
InvalidPathError(p) == [kind |-> "InvalidPathError", code |-> "none", path |-> p]
TSParseError(message, p, errors) ==
  [kind |-> "TSParseError", code |-> "none", message |-> message, path |-> p,
   errors |-> errors]

\* resolvePathToConfig, once the root is known
resolvePathToConfig(self) == PathResolve(self.appRootPath, self.configPath)

\* getConfigRawContent whose catch block rethrows whatever was thrown
getConfigRawContentUnclassified(files, pathToConfig) ==
  LET fileContent == readFileSync(files, pathToConfig) IN
  IF ~fileContent.ok THEN fileContent
  ELSE IF ~JSONParseText(fileContent.value).ok
       THEN Throw(InvalidJsonError(pathToConfig))
       ELSE Ok(fileContent.value)

\* getConfigRawContent without the JSON.parse of what was read
getConfigRawContentUnparsed(files, pathToConfig) ==
  LET fileContent == readFileSync(files, pathToConfig) IN
  IF fileContent.ok THEN fileContent
  ELSE IF fileContent.error.code = "ENOENT"
       THEN Throw(InvalidPathError(pathToConfig))
       ELSE Throw(fileContent.error)

\* getConfigRawContent whose catch block takes every failure for a missing
\* file
getConfigRawContentCatchAll(files, pathToConfig) ==
  LET fileContent == readFileSync(files, pathToConfig)
      tried == IF ~fileContent.ok THEN fileContent
               ELSE IF ~JSONParseText(fileContent.value).ok
                    THEN Throw(InvalidJsonError(pathToConfig))
                    ELSE Ok(fileContent.value)
  IN  IF tried.ok THEN tried
      ELSE Throw(InvalidPathError(pathToConfig))

\* getConfigRawContent after its path is resolved: the inner try block, then
\* the catch block that classifies what was thrown by its code
getConfigRawContent(files, pathToConfig) ==
  LET fileContent == readFileSync(files, pathToConfig)
      tried == IF ~fileContent.ok THEN fileContent
               ELSE IF ~JSONParseText(fileContent.value).ok
                    THEN Throw(InvalidJsonError(pathToConfig))
                    ELSE Ok(fileContent.value)
  IN  IF tried.ok THEN tried
      ELSE IF tried.error.code = "ENOENT"
           THEN Throw(InvalidPathError(pathToConfig))
           ELSE Throw(tried.error)

\* getCacheParams with the file name fixed to "tsconfig.json"
getCacheParamsFixedName(self, configRawContent) ==
  [filePath      |-> PathResolve(self.appRootPath, RelPath(<<"tsconfig.json">>)).value,
   fileContent   |-> configRawContent,
   fileExtension |-> ".json"]

\* getCacheParams with the content left out of the key
getCacheParamsWithoutContent(self, configRawContent) ==
  [filePath      |-> PathResolve(self.appRootPath, resolvePathToConfig(self).value).value,
   fileContent   |-> NoText,
   fileExtension |-> ".json"]

\* getCacheParams
getCacheParams(self, configRawContent) ==
  LET appRootFolderPath == self.appRootPath
      resolvedPathToConfig == resolvePathToConfig(self).value
  IN  [filePath      |-> PathResolve(appRootFolderPath, resolvedPathToConfig).value,
       fileContent   |-> configRawContent,
       fileExtension |-> ".json"]

\* parseTSConfig without the check of the diagnostics
parseTSConfigUnchecked(self, configRawContent) ==
  LET json == JSONParseText(configRawContent) IN
  IF ~json.ok THEN json
  ELSE Ok(JSONStringify(
            parseJsonConfigFileContent(json.value, resolvePathToConfig(self).value).options))

\* parseTSConfig that throws a plain Error with a message, without the
\* diagnostics
parseTSConfigPlainError(self, configRawContent) ==
  LET resolvedPathToConfig == resolvePathToConfig(self).value
      json == JSONParseText(configRawContent)
      parsed == parseJsonConfigFileContent(json.value, resolvedPathToConfig)
  IN  IF ~json.ok THEN json
      ELSE IF Len(parsed.errors) > 0
      THEN Throw([kind |-> "Error", code |-> "none", path |-> resolvedPathToConfig])
      ELSE Ok(JSONStringify(parsed.options))

\* parseTSConfig that hands back nothing for a config without diagnostics
parseTSConfigReturnsNothing(self, configRawContent) ==
  LET resolvedPathToConfig == resolvePathToConfig(self).value
      json == JSONParseText(configRawContent)
      parsed == parseJsonConfigFileContent(json.value, resolvedPathToConfig)
  IN  IF ~json.ok THEN json
      ELSE IF Len(parsed.errors) > 0
      THEN Throw(TSParseError(
                   formatDiagnostics(parsed.errors, PathDirname(resolvedPathToConfig)),
                   resolvedPathToConfig, parsed.errors))
      ELSE Ok(Undefined)

\* parseTSConfig
parseTSConfig(self, configRawContent) ==
  LET resolvedPathToConfig == resolvePathToConfig(self).value
      json == JSONParseText(configRawContent)
      parsed == parseJsonConfigFileContent(json.value, resolvedPathToConfig)
  IN  IF ~json.ok THEN json
      ELSE IF Len(parsed.errors) > 0
      THEN Throw(TSParseError(
                   formatDiagnostics(parsed.errors, PathDirname(resolvedPathToConfig)),
                   resolvedPathToConfig, parsed.errors))
      ELSE Ok(JSONStringify(parsed.options))

(***************************************************************************)
(* State.                                                                  *)
(***************************************************************************)
VARIABLES
  fs,          \* what each config path holds on disk
  marker,      \* whether the upward search finds package.json
  cacheParses, \* how cache.get hands back an entry: "text" as stored, "parsed",
               \* or "unknown" while no get has found one
  inst,        \* the fields of each TSConfig instance
  store,       \* the entries of each cache folder
  call,        \* the parse() invocations: position, locals and outcome
  hist,        \* per instance: searches made, root writes, caches constructed
  given        \* the options each instance was constructed with

vars == <<fs, marker, cacheParses, inst, store, call, hist, given>>

Instances == {1, 2}
Calls == 1..MaxCalls

\* the options the two instances are constructed with: without configPath and
\* with the default spelled out, or with two different config files; the two
\* instances share the cache folder
Opts(configPath, cacheFolderPath) ==
  [configPath |-> configPath, cacheFolderPath |-> cacheFolderPath]

Constructions ==
  { <<Opts(Undefined, "cacheA"), Opts(RelPath(<<".", "tsconfig.json">>), "cacheA")>>,
    <<Opts(RelPath(<<"tsconfig.json">>), "cacheA"), Opts(RelPath(<<"other.json">>), "cacheA")>> }

IdleCall ==
  [inst |-> 0, pc |-> "idle", after |-> {}, pathToConfig |-> Null,
   seen |-> NoText, content |-> NoText, getKey |-> Null, got |-> Null,
   config |-> Null, setKey |-> Null, result |-> Null, error |-> Null,
   nSearch |-> 0, nRead |-> 0, nGet |-> 0, nValidate |-> 0, nSet |-> 0]

Finished(c) == call[c].pc \in {"returned", "thrown"}

Init ==
  /\ fs = [p \in ConfigFiles |-> IF p = TsconfigJson THEN "ENOENT" ELSE "A"]
  /\ marker \in BOOLEAN
  /\ cacheParses = "unknown"
  /\ \E options \in Constructions :
       /\ inst = [i \in Instances |-> Constructor(options[i])]
       /\ given = [i \in Instances |-> options[i]]
  /\ store = [f \in CacheFolders |-> {}]
  /\ call = [c \in Calls |-> IdleCall]
  /\ hist = [i \in Instances |-> [searches |-> 0, rootWrites |-> 0, caches |-> 0]]

(***************************************************************************)
(* The environment: other processes change the files.                      *)
(***************************************************************************)
WriteFile(p, s) ==
  /\ s # fs[p]
  /\ fs' = [fs EXCEPT ![p] = s]
  /\ UNCHANGED <<marker, cacheParses, inst, store, call, hist, given>>

(***************************************************************************)
(* parse(), one action per stretch of code between two awaits.             *)
(***************************************************************************)
Fail(c, e) == [call EXCEPT ![c].pc = "thrown", ![c].error = e]

\* parse() with an initCache that constructs the cache whenever it is called
ParseConstructsAgain(c, i) ==
  /\ call[c].pc = "idle"
  /\ IF c = 1 THEN TRUE ELSE call[c - 1].pc # "idle"
  /\ call' = [call EXCEPT ![c].inst = i, ![c].pc = "root",
                          ![c].after = {d \in Calls : Finished(d)}]
  /\ inst' = [inst EXCEPT ![i].cache =
                [kind |-> "InFilesCache", folder |-> inst[i].cacheFolderPath]]
  /\ hist' = [hist EXCEPT ![i].caches = @ + 1]
  /\ UNCHANGED <<fs, marker, cacheParses, store, given>>

\* parse() on an instance that keeps the error of a call that failed and
\* fails every later call with it
ParseRemembersFailure(c, i) ==
  LET failed == {d \in Calls : call[d].inst = i /\ call[d].pc = "thrown"} IN
  /\ call[c].pc = "idle"
  /\ IF c = 1 THEN TRUE ELSE call[c - 1].pc # "idle"
  /\ IF failed # {}
     THEN call' = [call EXCEPT ![c].inst = i, ![c].pc = "thrown",
                               ![c].after = {d \in Calls : Finished(d)},
                               ![c].error = call[CHOOSE d \in failed : TRUE].error]
     ELSE call' = [call EXCEPT ![c].inst = i, ![c].pc = "root",
                               ![c].after = {d \in Calls : Finished(d)}]
  /\ IF inst[i].cache = Null
     THEN /\ inst' = [inst EXCEPT ![i].cache =
                        [kind |-> "InFilesCache", folder |-> inst[i].cacheFolderPath]]
          /\ hist' = [hist EXCEPT ![i].caches = @ + 1]
     ELSE UNCHANGED <<inst, hist>>
  /\ UNCHANGED <<fs, marker, cacheParses, store, given>>

\* parse() is invoked on instance i; initCache runs before the first await
Parse(c, i) ==
  /\ call[c].pc = "idle"
  /\ IF c = 1 THEN TRUE ELSE call[c - 1].pc # "idle"
  /\ call' = [call EXCEPT ![c].inst = i, ![c].pc = "root",
                          ![c].after = {d \in Calls : Finished(d)}]
  /\ IF inst[i].cache = Null
     THEN /\ inst' = [inst EXCEPT ![i].cache =
                        [kind |-> "InFilesCache", folder |-> inst[i].cacheFolderPath]]
          /\ hist' = [hist EXCEPT ![i].caches = @ + 1]
     ELSE UNCHANGED <<inst, hist>>
  /\ UNCHANGED <<fs, marker, cacheParses, store, given>>

\* getAppRootFolderPath without the memo test, as the earlier variant had it:
\* every request starts the search
GetAppRootFolderPathAlwaysSearches(c) ==
  LET i == call[c].inst IN
  /\ call[c].pc = "root"
  /\ call' = [call EXCEPT ![c].pc = "search", ![c].nSearch = @ + 1]
  /\ hist' = [hist EXCEPT ![i].searches = @ + 1]
  /\ UNCHANGED <<fs, marker, cacheParses, inst, store, given>>

\* getAppRootFolderPath, up to its await: the memo, or the search is started
GetAppRootFolderPath(c) ==
  LET i == call[c].inst IN
  /\ call[c].pc = "root"
  /\ IF inst[i].appRootPath # Null
     THEN /\ call' = [call EXCEPT ![c].pc = "read"]
          /\ UNCHANGED hist
     ELSE /\ call' = [call EXCEPT ![c].pc = "search", ![c].nSearch = @ + 1]
          /\ hist' = [hist EXCEPT ![i].searches = @ + 1]
  /\ UNCHANGED <<fs, marker, cacheParses, inst, store, given>>

\* a failed search recovered from: the working directory is taken for the root
\* and memoized, and the call goes on
FindPathToFileRecovers(c) ==
  LET i == call[c].inst IN
  /\ call[c].pc = "search"
  /\ inst' = [inst EXCEPT ![i].appRootPath = AppRoot]
  /\ hist' = [hist EXCEPT ![i].rootWrites = @ + 1]
  /\ call' = [call EXCEPT ![c].pc = "read"]
  /\ UNCHANGED <<fs, marker, cacheParses, store, given>>

\* findPathToFile("package.json") completes: the memo is written, or it fails
FindPathToFile(c) ==
  LET i == call[c].inst IN
  /\ call[c].pc = "search"
  /\ IF marker
     THEN /\ inst' = [inst EXCEPT ![i].appRootPath = AppRoot]
          /\ hist' = [hist EXCEPT ![i].rootWrites = @ + 1]
          /\ call' = [call EXCEPT ![c].pc = "read"]
     ELSE /\ call' = Fail(c, [kind |-> "RootNotFoundError", code |-> "none"])
          /\ UNCHANGED <<inst, hist>>
  /\ UNCHANGED <<fs, marker, cacheParses, store, given>>

\* getConfigRawContent that reads the file only when the instance has no
\* content left from another call, and hands that content back otherwise
GetConfigRawContentRemembered(c) ==
  LET self == inst[call[c].inst]
      pathToConfig == resolvePathToConfig(self)
      raw == getConfigRawContent(fs, pathToConfig.value)
      remembered == {d \in Calls \ {c} : /\ call[d].inst = call[c].inst
                                         /\ call[d].content # NoText}
  IN
  /\ call[c].pc = "read"
  /\ IF ~pathToConfig.ok
     THEN call' = Fail(c, pathToConfig.error)
     ELSE IF remembered # {}
          THEN call' = [call EXCEPT ![c].pc = "get",
                                    ![c].pathToConfig = pathToConfig.value,
                                    ![c].content =
                                      call[CHOOSE d \in remembered : TRUE].content]
          ELSE IF ~raw.ok
               THEN call' = [Fail(c, raw.error) EXCEPT
                               ![c].pathToConfig = pathToConfig.value,
                               ![c].seen = FileAt(fs, pathToConfig.value),
                               ![c].nRead = @ + 1]
               ELSE call' = [call EXCEPT ![c].pc = "get",
                                         ![c].pathToConfig = pathToConfig.value,
                                         ![c].seen = FileAt(fs, pathToConfig.value),
                                         ![c].content = raw.value,
                                         ![c].nRead = @ + 1]
  /\ UNCHANGED <<fs, marker, cacheParses, inst, store, hist, given>>

\* getConfigRawContent that, finding no file, tries again until there is one
GetConfigRawContentRetries(c) ==
  LET self == inst[call[c].inst]
      pathToConfig == resolvePathToConfig(self)
      raw == getConfigRawContent(fs, pathToConfig.value)
  IN
  /\ call[c].pc = "read"
  /\ IF ~pathToConfig.ok
     THEN call' = Fail(c, pathToConfig.error)
     ELSE IF FileAt(fs, pathToConfig.value) = "ENOENT"
          THEN call' = call
          ELSE IF ~raw.ok
               THEN call' = [Fail(c, raw.error) EXCEPT
                               ![c].pathToConfig = pathToConfig.value,
                               ![c].seen = FileAt(fs, pathToConfig.value),
                               ![c].nRead = @ + 1]
               ELSE call' = [call EXCEPT ![c].pc = "get",
                                         ![c].pathToConfig = pathToConfig.value,
                                         ![c].seen = FileAt(fs, pathToConfig.value),
                                         ![c].content = raw.value,
                                         ![c].nRead = @ + 1]
  /\ UNCHANGED <<fs, marker, cacheParses, inst, store, hist, given>>

\* the rest of getConfigRawContent: resolve, read, check the syntax
GetConfigRawContent(c) ==
  LET self == inst[call[c].inst]
      pathToConfig == resolvePathToConfig(self)
      raw == getConfigRawContent(fs, pathToConfig.value)
  IN
  /\ call[c].pc = "read"
  /\ IF ~pathToConfig.ok
     THEN call' = Fail(c, pathToConfig.error)
     ELSE IF ~raw.ok
          THEN call' = [Fail(c, raw.error) EXCEPT ![c].pathToConfig = pathToConfig.value,
                                                  ![c].seen = FileAt(fs, pathToConfig.value),
                                                  ![c].nRead = @ + 1]
          ELSE call' = [call EXCEPT ![c].pc = "get",
                                    ![c].pathToConfig = pathToConfig.value,
                                    ![c].seen = FileAt(fs, pathToConfig.value),
                                    ![c].content = raw.value,
                                    ![c].nRead = @ + 1]
  /\ UNCHANGED <<fs, marker, cacheParses, inst, store, hist, given>>

\* the ways cache.get may hand back an entry: either way at the first entry it
\* finds, the same way from then on
CacheForms == IF cacheParses = "unknown" THEN BOOLEAN ELSE {cacheParses = "parsed"}

\* what is known of the cache once a get has looked up `found` and parsed or not
FormAfter(found, parses) ==
  IF found = Null THEN cacheParses ELSE IF parses THEN "parsed" ELSE "text"

\* the validator invoked before the answer of the cache is looked at
CacheGetStepValidatesFirst(c) ==
  \E parses \in CacheForms :
  LET self == inst[call[c].inst]
      key == getCacheParams(self, call[c].content)
      configFromCache == CacheGet(store[self.cache.folder], key, parses)
      config == parseTSConfig(self, call[c].content)
      asked == [call EXCEPT ![c].getKey = key, ![c].got = configFromCache,
                            ![c].nGet = @ + 1, ![c].nValidate = @ + 1]
  IN
  /\ call[c].pc = "get"
  /\ cacheParses' = FormAfter(CacheLookup(store[self.cache.folder], key), parses)
  /\ IF ~config.ok
     THEN call' = [asked EXCEPT ![c].pc = "thrown", ![c].error = config.error]
     ELSE IF Truthy(configFromCache)
          THEN call' = [asked EXCEPT ![c].pc = "returned", ![c].result = configFromCache]
          ELSE call' = [asked EXCEPT ![c].pc = "set", ![c].config = config.value]
  /\ UNCHANGED <<fs, marker, inst, store, hist, given>>

\* the miss path with the write to the cache before the diagnostics are looked at
CacheGetStepStoresFirst(c) ==
  \E parses \in CacheForms :
  LET self == inst[call[c].inst]
      key == getCacheParams(self, call[c].content)
      configFromCache == CacheGet(store[self.cache.folder], key, parses)
      config == parseTSConfig(self, call[c].content)
      unchecked == parseTSConfigUnchecked(self, call[c].content)
      asked == [call EXCEPT ![c].getKey = key, ![c].got = configFromCache,
                            ![c].nGet = @ + 1]
  IN
  /\ call[c].pc = "get"
  /\ cacheParses' = FormAfter(CacheLookup(store[self.cache.folder], key), parses)
  /\ IF Truthy(configFromCache)
     THEN /\ call' = [asked EXCEPT ![c].pc = "returned", ![c].result = configFromCache]
          /\ UNCHANGED store
     ELSE /\ store' = [store EXCEPT ![self.cache.folder] = CacheSet(@, key, unchecked.value)]
          /\ IF config.ok
             THEN call' = [asked EXCEPT ![c].pc = "set", ![c].config = config.value,
                                        ![c].nValidate = @ + 1]
             ELSE call' = [asked EXCEPT ![c].pc = "thrown", ![c].error = config.error,
                                        ![c].nValidate = @ + 1]
  /\ UNCHANGED <<fs, marker, inst, hist, given>>

\* cache.get(getCacheParams(configRawContent)); on a hit the return, on a miss
\* parseTSConfig(configRawContent), which reads nothing another call can change
CacheGetStep(c) ==
  \E parses \in CacheForms :
  LET self == inst[call[c].inst]
      key == getCacheParams(self, call[c].content)
      configFromCache == CacheGet(store[self.cache.folder], key, parses)
      config == parseTSConfig(self, call[c].content)
      asked == [call EXCEPT ![c].getKey = key, ![c].got = configFromCache,
                            ![c].nGet = @ + 1]
  IN
  /\ call[c].pc = "get"
  /\ cacheParses' = FormAfter(CacheLookup(store[self.cache.folder], key), parses)
  /\ IF Truthy(configFromCache)
     THEN call' = [asked EXCEPT ![c].pc = "returned", ![c].result = configFromCache]
     ELSE IF config.ok
          THEN call' = [asked EXCEPT ![c].pc = "set", ![c].config = config.value,
                                     ![c].nValidate = @ + 1]
          ELSE call' = [asked EXCEPT ![c].pc = "thrown", ![c].error = config.error,
                                     ![c].nValidate = @ + 1]
  /\ UNCHANGED <<fs, marker, inst, store, hist, given>>

\* the write to the cache followed by `return config`, the text as stored
CacheSetStepReturnsText(c) ==
  LET self == inst[call[c].inst]
      key == getCacheParams(self, call[c].content)
  IN
  /\ call[c].pc = "set"
  /\ store' = [store EXCEPT ![self.cache.folder] = CacheSet(@, key, call[c].config)]
  /\ call' = [call EXCEPT ![c].pc = "returned", ![c].setKey = key, ![c].nSet = @ + 1,
                          ![c].result = call[c].config]
  /\ UNCHANGED <<fs, marker, cacheParses, inst, hist, given>>

\* the write with the key built from a second read of the file, as the earlier
\* getCacheParams() did
CacheSetStepRereads(c) ==
  LET self == inst[call[c].inst]
      again == getConfigRawContent(fs, call[c].pathToConfig)
      key == getCacheParams(self, again.value)
  IN
  /\ call[c].pc = "set"
  /\ IF again.ok
     THEN /\ store' = [store EXCEPT ![self.cache.folder] = CacheSet(@, key, call[c].config)]
          /\ call' = [call EXCEPT ![c].pc = "returned", ![c].setKey = key,
                                  ![c].nSet = @ + 1,
                                  ![c].result = JSONParse(call[c].config)]
     ELSE /\ call' = Fail(c, again.error)
          /\ UNCHANGED store
  /\ UNCHANGED <<fs, marker, cacheParses, inst, hist, given>>

\* the write refused when the key already has an entry, the call failing
CacheSetStepExclusive(c) ==
  LET self == inst[call[c].inst]
      key == getCacheParams(self, call[c].content)
  IN
  /\ call[c].pc = "set"
  /\ IF CacheLookup(store[self.cache.folder], key) = Null
     THEN /\ store' = [store EXCEPT ![self.cache.folder] = CacheSet(@, key, call[c].config)]
          /\ call' = [call EXCEPT ![c].pc = "returned", ![c].setKey = key,
                                  ![c].nSet = @ + 1,
                                  ![c].result = JSONParse(call[c].config)]
     ELSE /\ call' = Fail(c, [kind |-> "SystemError", code |-> "EEXIST"])
          /\ UNCHANGED store
  /\ UNCHANGED <<fs, marker, cacheParses, inst, hist, given>>

\* the write that keeps one entry per config file: the entries of the other
\* contents of the file are dropped
CacheSetStepEvicts(c) ==
  LET self == inst[call[c].inst]
      key == getCacheParams(self, call[c].content)
  IN
  /\ call[c].pc = "set"
  /\ store' = [store EXCEPT ![self.cache.folder] =
                 CacheSet({e \in @ : e.key.filePath # key.filePath}, key, call[c].config)]
  /\ call' = [call EXCEPT ![c].pc = "returned", ![c].setKey = key, ![c].nSet = @ + 1,
                          ![c].result = JSONParse(call[c].config)]
  /\ UNCHANGED <<fs, marker, cacheParses, inst, hist, given>>

\* cache.set(getCacheParams(configRawContent), config), then
\* return JSON.parse(config)
CacheSetStep(c) ==
  LET self == inst[call[c].inst]
      key == getCacheParams(self, call[c].content)
  IN
  /\ call[c].pc = "set"
  /\ store' = [store EXCEPT ![self.cache.folder] = CacheSet(@, key, call[c].config)]
  /\ call' = [call EXCEPT ![c].pc = "returned", ![c].setKey = key, ![c].nSet = @ + 1,
                          ![c].result = JSONParse(call[c].config)]
  /\ UNCHANGED <<fs, marker, cacheParses, inst, hist, given>>

Next ==
  \/ \E p \in ConfigFiles : \E s \in FileStatesOf(p) : WriteFile(p, s)
  \/ \E c \in Calls, i \in Instances : Parse(c, i)
  \/ \E c \in Calls : GetAppRootFolderPath(c)
  \/ \E c \in Calls : FindPathToFile(c)
  \/ \E c \in Calls : GetConfigRawContent(c)
  \/ \E c \in Calls : CacheGetStep(c)
  \/ \E c \in Calls : CacheSetStep(c)

Spec == Init /\ [][Next]_vars

\* a step of the parse() call c: the completion of what the call awaits
Step(c) ==
  \/ GetAppRootFolderPath(c)
  \/ FindPathToFile(c)
  \/ GetConfigRawContent(c)
  \/ CacheGetStep(c)
  \/ CacheSetStep(c)

\* every collaborator call completes and the continuation of every await is
\* run: a call that can take a step takes it in the end.  Nothing obliges the
\* environment to start calls or to change files.
FairSpec == Spec /\ \A c \in Calls : WF_vars(Step(c))

(***************************************************************************)
(* What the claims speak of.                                               *)
(***************************************************************************)
Started(c) == call[c].pc # "idle"
Returned(c) == call[c].pc = "returned"
Thrown(c) == call[c].pc = "thrown"
HasRead(c) == call[c].nRead > 0
\* the call took the miss path up to the write, or returned from the cache
Missed(c) == call[c].nGet > 0 /\ call[c].got = Null
Hit(c) == call[c].nGet > 0 /\ call[c].got # Null

\* the key of a resolved path and a content
KeyOf(p, text) == [filePath |-> p, fileContent |-> text, fileExtension |-> ".json"]

\* what the validator makes of a text read at a path
Validated(p, text) == parseJsonConfigFileContent(JSONParseText(text).value, p)

\* the texts the validator accepts
Accepted(p, text) ==
  /\ text \in Contents
  /\ JSONParseText(text).ok
  /\ Validated(p, text).errors = <<>>

\* the store the instance of a call uses
StoreOf(c) == store[inst[call[c].inst].cacheFolderPath]

\* call b started after call a had returned, on the same instance, and read
\* the same path and content as a did
Repeats(a, b) ==
  /\ Returned(a) /\ a \in call[b].after
  /\ call[b].inst = call[a].inst
  /\ HasRead(b)
  /\ call[b].pathToConfig = call[a].pathToConfig
  /\ call[b].seen = call[a].content

\* C1 (as claimed): a parse() that follows a successful parse() of the same
\* instance, with path and content unchanged, returns a value deep-equal to the
\* first result, does not invoke the validator and does not write to the cache.
C1_Idempotence ==
  \A a, b \in Calls :
    (Repeats(a, b) /\ Finished(b))
      => /\ Returned(b)
         /\ call[b].result = call[a].result
         /\ call[b].nValidate = 0
         /\ call[b].nSet = 0

\* C1, the part the code keeps: the second call is a hit that neither validates
\* nor writes, and what it returns is the first result or its serialized text.
C1_SecondCallHits ==
  \A a, b \in Calls :
    (Repeats(a, b) /\ Finished(b))
      => /\ Returned(b) /\ Hit(b)
         /\ call[b].nValidate = 0
         /\ call[b].nSet = 0
         /\ call[b].result \in {call[a].result, JSONStringify(call[a].result)}

C1_Witness ==
  \E a, b \in Calls : Repeats(a, b) /\ Returned(b) /\ Missed(a)

\* call b started after call a had returned, on the same instance, and found
\* at the same path another text than a had read, one no other call has put
\* an entry in the cache for
Changed(a, b) ==
  /\ Returned(a) /\ a \in call[b].after
  /\ call[b].inst = call[a].inst
  /\ HasRead(b)
  /\ call[b].pathToConfig = call[a].pathToConfig
  /\ call[b].seen \in Contents
  /\ call[b].seen # call[a].content
  /\ \A d \in Calls \ {b} :
       call[d].setKey # KeyOf(call[b].pathToConfig, call[b].seen)

\* the second call missed, validated the new text, stored and returned the
\* validator's result for it
Revalidated(b) ==
  LET p == call[b].pathToConfig
      options == Validated(p, call[b].seen).options
  IN  /\ Returned(b) /\ Missed(b)
      /\ call[b].nValidate = 1 /\ call[b].nSet = 1
      /\ call[b].result = options
      /\ CacheLookup(StoreOf(b), KeyOf(p, call[b].seen)) = JSONStringify(options)

\* C2 (as claimed): when the text of the config file is changed between two
\* parse() calls to a content the cache holds no entry for, the second call
\* misses, validates the new content, and returns and stores the validator's
\* result for it.
C2_Invalidation ==
  \A a, b \in Calls : (Changed(a, b) /\ Finished(b)) => Revalidated(b)

\* C2 (amended): the second call never returns the entry of the old content;
\* it revalidates, stores and returns when the new content is valid JSON that
\* the validator accepts; when the validator reports diagnostics it fails
\* after validating, and when the text is not JSON it fails before validating;
\* in both failures nothing is stored.
C2_InvalidationOfValid ==
  \A a, b \in Calls :
    (Changed(a, b) /\ Finished(b)) =>
      LET p == call[b].pathToConfig
          text == call[b].seen
      IN  /\ call[b].result \notin {call[a].result, JSONStringify(call[a].result)}
          /\ Accepted(p, text) => Revalidated(b)
          /\ (JSONParseText(text).ok /\ ~Accepted(p, text)) =>
               /\ Thrown(b) /\ call[b].error.kind = "TSParseError"
               /\ Missed(b) /\ call[b].nValidate = 1 /\ call[b].nSet = 0
          /\ ~JSONParseText(text).ok =>
               /\ Thrown(b) /\ call[b].error.kind = "InvalidJsonError"
               /\ call[b].nGet = 0 /\ call[b].nValidate = 0 /\ call[b].nSet = 0

C2_Witness ==
  \E a, b \in Calls : Changed(a, b) /\ Revalidated(b)

\* the option sets the validator hands out without diagnostics
ValidOptions ==
  {Validated(q[1], q[2]).options :
     q \in {r \in ConfigFiles \X Contents : Accepted(r[1], r[2])}}

\* C3: every value a parse() call returns is the validator's output (or, from
\* the cache, its serialized text) for a content it reported no diagnostics
\* on, and so is every value the cache holds.
C3_ValidatedOnly ==
  /\ \A c \in Calls :
       Returned(c) =>
         call[c].result \in ValidOptions \cup {JSONStringify(o) : o \in ValidOptions}
  /\ \A f \in CacheFolders : \A e \in store[f] :
       e.value \in {JSONStringify(o) : o \in ValidOptions}

C3_Witness ==
  /\ \E c \in Calls : Thrown(c) /\ call[c].error.kind = "TSParseError"
  /\ \E c \in Calls : Returned(c)
  /\ \E f \in CacheFolders : store[f] # {}

\* the calls that have written to the cache
Writers == {c \in Calls : call[c].nSet > 0}

\* C4: a successful parse() that missed has stored, under the key (resolved
\* path, content it read, ".json"), the serialized options of the validator,
\* and has returned them deserialized: the value returned is the stored value
\* read back and parsed.  When it is the only call that has written, the
\* cache holds that entry and no other.
C4_CachePopulation ==
  \A c \in Calls :
    (Returned(c) /\ Missed(c)) =>
      LET self == inst[call[c].inst]
          p == PathResolve(AppRoot, self.configPath).value
          key == KeyOf(p, call[c].seen)
          stored == CacheLookup(StoreOf(c), key)
      IN  /\ call[c].setKey = key
          /\ stored = JSONStringify(Validated(p, call[c].seen).options)
          /\ call[c].result = JSONParse(stored)
          /\ call[c].result # stored
          /\ Writers = {c} => StoreOf(c) = {[key |-> key, value |-> stored]}

C4_Witness ==
  \E c \in Calls : Returned(c) /\ Missed(c) /\ Writers = {c} /\ Cardinality(StoreOf(c)) = 1

\* the project root joined with the configPath of an instance
Joined(i) ==
  AbsPath(AppRoot.segs \o SelectSeq(inst[i].configPath.segs, LAMBDA x : x # "."))

\* the call made no use of the cache and of the validator
Untouched(c) ==
  /\ call[c].nGet = 0 /\ call[c].getKey = Null /\ call[c].got = Null
  /\ call[c].nValidate = 0
  /\ call[c].nSet = 0 /\ call[c].setKey = Null

\* C5: a parse() that finds nothing at the resolved config path fails with the
\* not-found error carrying the project root joined with configPath, and has
\* not queried the cache, invoked the validator or written to the cache.
C5_MissingFile ==
  \A c \in Calls :
    (HasRead(c) /\ call[c].seen = "ENOENT") =>
      /\ Thrown(c)
      /\ call[c].error = InvalidPathError(Joined(call[c].inst))
      /\ call[c].result = Null
      /\ Untouched(c)

C5_Witness ==
  \E c \in Calls : HasRead(c) /\ call[c].seen = "ENOENT" /\ Thrown(c)

\* C6: a parse() that finds a text that is not JSON fails with InvalidJsonError,
\* not with the not-found error nor the validation error, before the cache is
\* queried and before the validator is invoked.
C6_InvalidJson ==
  \A c \in Calls :
    (HasRead(c) /\ call[c].seen \in Contents /\ ~JSONParseText(call[c].seen).ok) =>
      /\ Thrown(c)
      /\ call[c].error = InvalidJsonError(Joined(call[c].inst))
      /\ call[c].error.kind \notin {"InvalidPathError", "TSParseError"}
      /\ call[c].result = Null
      /\ Untouched(c)

C6_Witness ==
  \E c \in Calls : HasRead(c) /\ call[c].seen = "Junk" /\ Thrown(c)

\* C7: a parse() that missed and whose validator reported diagnostics fails with
\* TSParseError carrying the formatted message and the diagnostics themselves,
\* and no cache write is made for the key.
C7_ValidationFailure ==
  \A c \in Calls :
    LET p == call[c].pathToConfig
        errors == Validated(p, call[c].content).errors
    IN  (Missed(c) /\ Len(errors) > 0) =>
          /\ Thrown(c)
          /\ call[c].nValidate = 1
          /\ call[c].error.kind = "TSParseError"
          /\ call[c].error.errors = errors
          /\ call[c].error.message = formatDiagnostics(errors, PathDirname(p))
          /\ Len(call[c].error.message) = Len(errors)
          /\ call[c].nSet = 0 /\ call[c].setKey = Null
          /\ CacheLookup(StoreOf(c), call[c].getKey) = Null

C7_Witness ==
  \E c \in Calls : Missed(c) /\ call[c].content = "Bad" /\ Thrown(c)

\* C8: an instance constructed without configPath has the fields of one
\* constructed with "./tsconfig.json", and each of its parse() calls resolves,
\* reads and keys <project root>/tsconfig.json.
C8_DefaultPath ==
  \A i \in Instances :
    Falsy(given[i].configPath) =>
      /\ LET explicit == Constructor(Opts(RelPath(<<".", "tsconfig.json">>),
                                          given[i].cacheFolderPath))
         IN  /\ inst[i].configPath = explicit.configPath
             /\ inst[i].cacheFolderPath = explicit.cacheFolderPath
      /\ inst[i].configPath = RelPath(<<".", "tsconfig.json">>)
      /\ \A c \in Calls :
           call[c].inst = i =>
             /\ (Finished(c) /\ marker) => HasRead(c)
             /\ HasRead(c) =>
                  call[c].pathToConfig = TsconfigJson
             /\ call[c].nGet > 0 => call[c].getKey = KeyOf(TsconfigJson, call[c].seen)
             /\ call[c].nSet > 0 => call[c].setKey = KeyOf(TsconfigJson, call[c].seen)

C8_Witness ==
  \E c \in Calls :
    /\ Started(c) /\ Falsy(given[call[c].inst].configPath)
    /\ Returned(c) /\ call[c].nSet > 0

\* C9: the key a parse() call uses is the triple (resolved config path, content
\* read, ".json"), for the lookup and for the write; two calls use the same key
\* exactly when they agree on path and content, and what a call gets from the
\* cache is the entry of its own path and content.
C9_NoKeyAliasing ==
  /\ \A c \in Calls :
       /\ call[c].nGet > 0 => call[c].getKey = KeyOf(Joined(call[c].inst), call[c].seen)
       /\ call[c].nSet > 0 => call[c].setKey = call[c].getKey
       /\ Hit(c) =>
            LET own == Validated(Joined(call[c].inst), call[c].seen).options
            IN  call[c].got \in {own, JSONStringify(own)}
  /\ \A a, b \in Calls :
       (call[a].nGet > 0 /\ call[b].nGet > 0) =>
         ((call[a].getKey = call[b].getKey)
            <=> (/\ call[a].pathToConfig = call[b].pathToConfig
                 /\ call[a].seen = call[b].seen))

C9_Witness ==
  \E a, b \in Calls :
    /\ Returned(a) /\ a \in call[b].after
    /\ call[a].pathToConfig # call[b].pathToConfig
    /\ call[a].seen = call[b].seen
    /\ Returned(b) /\ Missed(b)

\* C10: a step of a parse() call changes the cache only when it is the call's
\* one write, a call that has settled takes no further step, and a call that
\* fails has run each of its steps at most once, has written nothing and has
\* no result: the step in which it fails leaves the cache as it was.
C10_FailureTerminal ==
  [][\A c \in Calls :
       call'[c] # call[c] =>
         /\ ~Finished(c)
         /\ call'[c].nSet = call[c].nSet => store' = store
         /\ call'[c].pc = "thrown" =>
              /\ store' = store
              /\ call'[c].error # Null
              /\ call'[c].result = Null
              /\ call'[c].nSet = 0 /\ call'[c].setKey = Null
              /\ call'[c].nSearch <= 1 /\ call'[c].nRead <= 1
              /\ call'[c].nGet <= 1 /\ call'[c].nValidate <= 1]_vars

C10_Witness ==
  /\ \E f \in CacheFolders : store[f] # {}
  /\ \E c \in Calls : Thrown(c) /\ call[c].error.kind = "TSParseError"
                      /\ \E d \in call[c].after : Returned(d)

\* C11: a parse() that missed writes under the key it looked up, the key of the
\* content it read, and writes the validator's output for that content, whatever
\* the file holds by then; so every entry of a cache folder holds the validation
\* result of the content in its own key.
C11_WriteReflectsObserved ==
  /\ \A c \in Calls :
       /\ call[c].pc = "set" =>
            /\ call[c].getKey = KeyOf(call[c].pathToConfig, call[c].seen)
            /\ call[c].config =
                 JSONStringify(Validated(call[c].pathToConfig, call[c].seen).options)
       /\ call[c].nSet > 0 =>
            /\ call[c].setKey = call[c].getKey
            /\ call[c].setKey = KeyOf(call[c].pathToConfig, call[c].seen)
            /\ call[c].config =
                 JSONStringify(Validated(call[c].pathToConfig, call[c].seen).options)
  /\ \A f \in CacheFolders : \A e \in store[f] :
       /\ Accepted(e.key.filePath, e.key.fileContent)
       /\ e.value = JSONStringify(Validated(e.key.filePath, e.key.fileContent).options)

\* a call is between its lookup and its write, and the file no longer holds
\* the content the call read but another one the validator accepts
C11_Witness ==
  \E c \in Calls :
    /\ call[c].pc = "set"
    /\ FileAt(fs, call[c].pathToConfig) # call[c].seen
    /\ Accepted(call[c].pathToConfig, FileAt(fs, call[c].pathToConfig))

\* C12: two parse() calls, on one instance or on two instances that share the
\* cache folder and the config file, that read the same content of the same
\* path and both missed, both return, their results are equal, and the cache
\* holds for their key the one entry a single call would have written.
C12_OverlappingMissesBenign ==
  \A a \in Calls : \A b \in Calls \ {a} :
    ( /\ Missed(a) /\ Missed(b)
      /\ call[a].getKey = call[b].getKey
      /\ Accepted(call[a].pathToConfig, call[a].seen)
      /\ Finished(a) /\ Finished(b) )
    => /\ Returned(a) /\ Returned(b)
       /\ call[a].result = call[b].result
       /\ call[a].result = Validated(call[a].pathToConfig, call[a].seen).options
       /\ call[a].setKey = call[b].setKey
       /\ {e \in StoreOf(a) : e.key = call[a].getKey}
            = {[key |-> KeyOf(call[a].pathToConfig, call[a].seen),
                value |-> JSONStringify(
                            Validated(call[a].pathToConfig, call[a].seen).options)]}
       /\ StoreOf(b) = StoreOf(a)

\* two calls on two instances that share the cache folder and the config file
\* have both missed on one key, both written and both returned
C12_Witness ==
  \E a \in Calls : \E b \in Calls \ {a} :
    /\ Returned(a) /\ Returned(b)
    /\ Missed(a) /\ Missed(b)
    /\ call[a].getKey = call[b].getKey
    /\ call[a].nSet = 1 /\ call[b].nSet = 1
    /\ call[a].inst # call[b].inst

\* C13 (as claimed): the memo appRootPath of an instance is written at most
\* once in the lifetime of the instance, in every sequence and interleaving of
\* parse() calls on it, calls that overlap during the first search included.
C13_MemoWrittenOnce ==
  \A i \in Instances : hist[i].rootWrites <= 1

\* C13, the part the code keeps: every write of the memo stores the directory
\* of the marker, and an instance writes the memo at most as often as its
\* calls found it empty.
C13_MemoWritesAgree ==
  \A i \in Instances :
    /\ inst[i].appRootPath \in {Null, AppRoot}
    /\ hist[i].rootWrites <= hist[i].searches
    /\ hist[i].rootWrites > 0 => inst[i].appRootPath = AppRoot

\* C14: the cache of an instance is constructed exactly once, by the first
\* parse() on the instance and against its cacheFolderPath; no later call,
\* sequential or overlapping, returned or failed, constructs it again.
C14_CacheConstructedOnce ==
  \A i \in Instances :
    IF \E c \in Calls : Started(c) /\ call[c].inst = i
    THEN /\ hist[i].caches = 1
         /\ inst[i].cache = [kind |-> "InFilesCache", folder |-> given[i].cacheFolderPath]
    ELSE /\ hist[i].caches = 0
         /\ inst[i].cache = Null

\* an instance has had a call that failed and a later call that finished
C14_Witness ==
  \E a \in Calls : \E b \in Calls \ {a} :
    /\ call[a].inst = call[b].inst
    /\ Thrown(a) /\ a \in call[b].after /\ Finished(b)
    /\ hist[call[a].inst].caches = 1

\* the calls on instance i never overlapped: of any two, one had finished
\* when the other started
Sequential(i) ==
  \A a \in Calls : \A b \in Calls \ {a} :
    (Started(a) /\ Started(b) /\ call[a].inst = i /\ call[b].inst = i)
    => (a \in call[b].after \/ b \in call[a].after)

\* call d got the root of its instance
GotRoot(d) == Finished(d) /\ call[d].error.kind # "RootNotFoundError"

\* C15: once a root lookup has succeeded on an instance, a later request for
\* the root, in the same call or in a later call, takes the memo and starts no
\* search; calls on an instance that follow one another search once in all.
C15_RootLookupMemoized ==
  /\ \A c \in Calls :
       /\ call[c].nSearch <= 1
       /\ \A d \in call[c].after :
            (call[d].inst = call[c].inst /\ GotRoot(d)) => call[c].nSearch = 0
       /\ HasRead(c) =>
            /\ inst[call[c].inst].appRootPath = AppRoot
            /\ call[c].pathToConfig =
                 PathResolve(AppRoot, inst[call[c].inst].configPath).value
            /\ call[c].getKey # Null => call[c].getKey.filePath = call[c].pathToConfig
  /\ \A i \in Instances :
       Sequential(i) =>
         /\ hist[i].searches <= (IF marker THEN 1 ELSE MaxCalls)
         /\ (\E c \in Calls : call[c].inst = i /\ HasRead(c)) => hist[i].searches = 1

\* a call searched and got the root, and a later call on the same instance
\* read the config without a search
C15_Witness ==
  \E d \in Calls : \E c \in Calls \ {d} :
    /\ call[c].inst = call[d].inst
    /\ d \in call[c].after /\ GotRoot(d) /\ call[d].nSearch = 1
    /\ HasRead(c) /\ call[c].nSearch = 0
    /\ hist[call[c].inst].searches = 1

\* C16: every parse() call that queries the cache has read the file before, in
\* that call, and builds its key from the content that read gave; a call that
\* ends in a hit has read the file as well, and no call takes the content of
\* its key from an earlier call.
C16_FreshRead ==
  \A c \in Calls :
    /\ call[c].nRead <= 1
    /\ call[c].nGet > 0 =>
         /\ call[c].nRead = 1
         /\ call[c].seen \in Contents
         /\ call[c].content = call[c].seen
         /\ call[c].getKey.fileContent = call[c].seen
    /\ Returned(c) => call[c].nRead = 1

\* a call that followed another call on its instance has read the file itself
\* and ended in a hit on the key of what it read
C16_Witness ==
  \E a \in Calls : \E b \in Calls \ {a} :
    /\ call[a].inst = call[b].inst
    /\ a \in call[b].after /\ HasRead(a)
    /\ Returned(b) /\ Hit(b) /\ call[b].nRead = 1
    /\ call[b].getKey.fileContent = call[b].seen

\* C17: within one parse() call the steps come in the order cache init, file
\* read, cache get, and, on a miss only, validator, cache set, return; the
\* validator and cache.set run at most once per call and only after the call's
\* cache.get gave nothing, and a call that missed returns after its cache.set.
C17_StepOrdering ==
  \A c \in Calls :
    /\ call[c].nRead <= 1 /\ call[c].nGet <= 1
    /\ call[c].nValidate <= 1 /\ call[c].nSet <= 1
    /\ Started(c) => inst[call[c].inst].cache # Null
    /\ call[c].pc \in {"root", "search", "read"} => call[c].nRead = 0
    /\ call[c].nRead = 0 => call[c].nGet = 0
    /\ call[c].pc = "get" => call[c].nRead = 1 /\ call[c].nGet = 0
    /\ call[c].nGet = 0 => call[c].nValidate = 0
    /\ call[c].nValidate > 0 => call[c].got = Null
    /\ call[c].pc = "set" => call[c].nValidate = 1 /\ call[c].nSet = 0
    /\ call[c].nSet > 0 => call[c].nValidate = 1 /\ call[c].got = Null /\ Returned(c)
    /\ Hit(c) => Returned(c) /\ call[c].nValidate = 0 /\ call[c].nSet = 0
    /\ (Returned(c) /\ Missed(c)) =>
         /\ call[c].nSet = 1
         /\ call[c].result = JSONParse(call[c].config)

\* one call went through every step of the miss path and returned, and a call
\* after it returned from the cache without validator and without write
C17_Witness ==
  \E a \in Calls : \E b \in Calls \ {a} :
    /\ Returned(a) /\ Missed(a)
    /\ call[a].nRead = 1 /\ call[a].nGet = 1 /\ call[a].nValidate = 1 /\ call[a].nSet = 1
    /\ Returned(b) /\ Hit(b) /\ call[b].nValidate = 0 /\ call[b].nSet = 0

\* C18: a parse() whose read of the config file failed with another code than
\* the one of a missing file fails with that very error of the read, not with
\* the not-found error nor InvalidJsonError; the not-found error is raised only
\* when the read failed with the code of a missing file, and the
\* InvalidJsonError raised in the reader leaves the reader as it is.
C18_UnclassifiedPropagates ==
  \A c \in Calls :
    /\ (HasRead(c) /\ call[c].seen \notin Contents \cup {"ENOENT"}) =>
         /\ Thrown(c)
         /\ call[c].error = [kind |-> "SystemError", code |-> call[c].seen]
         /\ call[c].error = readFileSync([p \in {call[c].pathToConfig} |-> call[c].seen],
                                         call[c].pathToConfig).error
         /\ Untouched(c)
    /\ call[c].error.kind = "InvalidPathError" =>
         /\ HasRead(c)
         /\ call[c].seen = "ENOENT"
    /\ (HasRead(c) /\ call[c].seen \in Contents /\ ~JSONParseText(call[c].seen).ok) =>
         /\ Thrown(c)
         /\ call[c].error = InvalidJsonError(call[c].pathToConfig)

\* one call failed with the error of a read refused for permissions, another
\* with the InvalidJsonError of the reader
C18_Witness ==
  \E c \in Calls : \E d \in Calls \ {c} :
    /\ Thrown(c) /\ call[c].seen = "EACCES"
    /\ call[c].error = [kind |-> "SystemError", code |-> "EACCES"]
    /\ Thrown(d) /\ call[d].error.kind = "InvalidJsonError"

\* C19: a parse() whose search for the project root failed, no ancestor
\* directory holding the marker, fails with the error of the search as it is,
\* has read no config file, not queried the cache, not invoked the validator,
\* not written to the cache, and has left no root in the memo.
C19_RootNotFoundPropagates ==
  \A c \in Calls :
    /\ (call[c].nSearch > 0 /\ ~marker /\ call[c].pc # "search") =>
         /\ Thrown(c)
         /\ call[c].error = [kind |-> "RootNotFoundError", code |-> "none"]
    /\ call[c].error.kind = "RootNotFoundError" =>
         /\ Thrown(c)
         /\ call[c].result = Null
         /\ call[c].nRead = 0 /\ call[c].seen = NoText /\ call[c].content = NoText
         /\ call[c].pathToConfig = Null
         /\ Untouched(c)
         /\ inst[call[c].inst].appRootPath = Null
         /\ hist[call[c].inst].rootWrites = 0

\* a call failed with the error of the search, and a later call on the same
\* instance searched again and failed alike
C19_Witness ==
  \E c \in Calls : \E d \in Calls \ {c} :
    /\ call[c].inst = call[d].inst
    /\ Thrown(c) /\ call[c].error.kind = "RootNotFoundError"
    /\ c \in call[d].after
    /\ Thrown(d) /\ call[d].error.kind = "RootNotFoundError" /\ call[d].nSearch = 1

\* call a failed with the not-found, the invalid-JSON or the validation error
FailedOnConfig(a) ==
  /\ Thrown(a)
  /\ call[a].error.kind \in {"InvalidPathError", "InvalidJsonError", "TSParseError"}

\* C20: a parse() that failed with the not-found, the invalid-JSON or the
\* validation error leaves the fields of the instance as they were constructed:
\* a later parse() on the same instance reads the file again, and when it finds
\* a config the validator accepts it does not fail and returns the validator's
\* result for that content (from the cache, when another call has stored it,
\* in the form the cache hands back).
C20_FailureDoesNotPoison ==
  \A a \in Calls : \A b \in Calls \ {a} :
    ( /\ FailedOnConfig(a)
      /\ a \in call[b].after
      /\ call[b].inst = call[a].inst )
    => /\ inst[call[b].inst].configPath = Constructor(given[call[b].inst]).configPath
       /\ inst[call[b].inst].cacheFolderPath = given[call[b].inst].cacheFolderPath
       /\ (HasRead(b) /\ Accepted(call[b].pathToConfig, call[b].seen)) =>
            LET options == Validated(call[b].pathToConfig, call[b].seen).options IN
            /\ ~Thrown(b)
            /\ Returned(b) =>
                 /\ call[b].result \in {options, JSONStringify(options)}
                 /\ Missed(b) => call[b].result = options
                 /\ CacheLookup(StoreOf(b), KeyOf(call[b].pathToConfig, call[b].seen))
                      = JSONStringify(options)
       /\ (Started(b) /\ call[b].pc \notin {"root", "search", "read"}) => HasRead(b)

\* a call failed with the validation error, the file was changed, and the next
\* call on the instance validated the new content, stored and returned it
C20_Witness ==
  \E a \in Calls : \E b \in Calls \ {a} :
    /\ Thrown(a) /\ call[a].error.kind = "TSParseError"
    /\ a \in call[b].after /\ call[b].inst = call[a].inst
    /\ call[b].seen # call[a].seen
    /\ Returned(b) /\ Missed(b)
    /\ call[b].result = Validated(call[b].pathToConfig, call[b].seen).options

\* C21: no step of a parse() call, and no change of a file, removes an entry
\* of a cache folder or changes the value an entry holds: every entry of a
\* folder is an entry of the folder after the step, under the same key and
\* with the same value, whatever calls overlap and whatever the files hold.
C21_CacheOnlyGrows ==
  [][\A f \in CacheFolders :
       /\ store[f] \subseteq store'[f]
       /\ \A e \in store[f] : CacheLookup(store'[f], e.key) = e.value]_vars

\* a call stored the entry of one content of a file, the file was changed, and
\* a later call stored the entry of the new content: the folder holds both
C21_Witness ==
  \E a \in Calls : \E b \in Calls \ {a} :
    /\ call[a].nSet = 1 /\ call[b].nSet = 1
    /\ a \in call[b].after
    /\ call[a].setKey.filePath = call[b].setKey.filePath
    /\ call[a].setKey # call[b].setKey
    /\ \A k \in {call[a].setKey, call[b].setKey} : CacheLookup(StoreOf(b), k) # Null
    /\ Cardinality(StoreOf(b)) = 2

\* the collaborator calls a parse() call has made
CollaboratorCalls(c) ==
  call[c].nSearch + call[c].nRead + call[c].nGet + call[c].nValidate + call[c].nSet

\* C22: when every collaborator call completes, every parse() call that was
\* started ends, returning a result or throwing an error, and it has made each
\* collaborator call at most once, five in all at most.
C22_Terminates ==
  /\ [](\A c \in Calls :
          /\ call[c].nSearch <= 1 /\ call[c].nRead <= 1 /\ call[c].nGet <= 1
          /\ call[c].nValidate <= 1 /\ call[c].nSet <= 1
          /\ CollaboratorCalls(c) <= 5)
  /\ \A c \in Calls : Started(c) ~> Finished(c)

\* one call has returned after the five collaborator calls of the longest
\* path, another has ended with an error
C22_Witness ==
  \E a \in Calls : \E b \in Calls \ {a} :
    /\ Returned(a) /\ CollaboratorCalls(a) = 5
    /\ Thrown(b)

\* how far a call is on its way through parse()
Rank(pc) ==
  CASE pc = "idle" -> 0
    [] pc = "root" -> 1
    [] pc = "search" -> 2
    [] pc = "read" -> 3
    [] pc = "get" -> 4
    [] pc = "set" -> 5
    [] OTHER -> 6

\* C22, the argument without fairness: a call that was started and has not
\* ended can take a step whatever the other calls and the files do, and every
\* step that changes a call moves it forward on its way, never back.
C22_NeverStuck ==
  \A c \in Calls : (Started(c) /\ ~Finished(c)) => ENABLED Step(c)

C22_StepsAdvance ==
  [][\A c \in Calls :
       call'[c] # call[c] => Rank(call'[c].pc) > Rank(call[c].pc)]_vars

\* C23: parse() takes the hit path exactly when what cache.get handed back is
\* truthy; every value parse() is about to store or has stored is truthy, a
\* serialized text whose deserialized form is an options object; so a call
\* that looks up a key an earlier call has written finds a truthy value, in
\* either form the cache hands back, and returns it without validating and
\* without writing.
C23_StoredValuesTruthy ==
  /\ \A c \in Calls :
       /\ call[c].pc = "set" =>
            /\ Truthy(call[c].config)
            /\ call[c].config.kind = "text"
            /\ JSONParse(call[c].config).kind = "options"
       /\ call[c].nGet > 0 =>
            /\ Truthy(call[c].got) <=> Hit(c)
            /\ Truthy(call[c].got) =>
                 /\ Returned(c) /\ call[c].result = call[c].got
                 /\ call[c].nValidate = 0 /\ call[c].nSet = 0
            /\ ~Truthy(call[c].got) => call[c].nValidate = 1
       /\ \A d \in call[c].after :
            ( /\ call[d].nSet > 0 /\ call[c].nGet > 0
              /\ call[c].getKey = call[d].setKey
              /\ inst[call[c].inst].cacheFolderPath = inst[call[d].inst].cacheFolderPath )
            => /\ Truthy(call[c].got)
               /\ call[c].got \in {call[d].config, JSONParse(call[d].config)}
               /\ Returned(c) /\ call[c].nValidate = 0
  /\ \A f \in CacheFolders : \A e \in store[f] :
       /\ Truthy(e.value)
       /\ e.value.kind = "text"
       /\ Truthy(JSONParse(e.value))
       /\ JSONParse(e.value).kind = "options"

\* a call looked up the key an earlier call had written and was handed the
\* deserialized entry, an options object, and returned it
C23_Witness ==
  \E d \in Calls : \E c \in Calls \ {d} :
    /\ d \in call[c].after /\ call[d].nSet = 1
    /\ call[c].nGet = 1 /\ call[c].getKey = call[d].setKey
    /\ call[c].got.kind = "options"
    /\ Returned(c) /\ call[c].nValidate = 0

====
